---- MODULE Spec2Model ----
(***************************************************************************)
(* Model of levant/plan.go: the plan() decision gate of a Levant           *)
(* deployment and the planDiff / recurseObjDiff / logDiffObj walk that     *)
(* logs every edited field of the Nomad job diff.                          *)
(*                                                                         *)
(* The state is the job diff the scheduler answers with, the records the   *)
(* most recent plan() invocation logged and its return value, and the same *)
(* two for the invocation before it.  Every action is one whole            *)
(* invocation of plan().                                                   *)
(***************************************************************************)
EXTENDS Naturals, Sequences, FiniteSets, TLC

VARIABLES diff, log, ret, prevLog, prevRet

vars == <<diff, log, ret, prevLog, prevRet>>

(***************************************************************************)
(* Diff classifications.  plan.go names three of the four values of        *)
(* nomad/structs.DiffType; "Deleted" is the one it has no case for.        *)
(***************************************************************************)
diffTypeAdded == "Added"
diffTypeEdited == "Edited"
diffTypeNone == "None"
diffTypeDeleted == "Deleted"

(***************************************************************************)
(* Input domain.  SmallDiffs: every job diff of at most MaxNodes task       *)
(* group, task and object nodes, of any shape and nesting, under every     *)
(* top-level classification.  WideDiffs: the edited job diffs of two task  *)
(* groups, the first with two tasks and the second with one, every node    *)
(* classified either way, named or unnamed, with or without objects.       *)
(***************************************************************************)
MaxNodes == 4

JobTypes == {diffTypeAdded, diffTypeEdited, diffTypeNone, diffTypeDeleted}
NodeTypes == {diffTypeEdited, diffTypeNone}
GroupNames == {"", "cache"}
TaskNames == {"", "web"}

ObjectName(depth) == IF depth % 2 = 0 THEN "Resources" ELSE "Networks"

FieldDiff(n, ty, old, new) == [Name |-> n, Type |-> ty, Old |-> old, New |-> new]

FieldSeqs ==
  { <<>>,
    <<FieldDiff("CPU", diffTypeNone, "500", "500"),
      FieldDiff("MemoryMB", diffTypeEdited, "256", "512")>>,
    <<FieldDiff("CPU", diffTypeEdited, "500", "1000"),
      FieldDiff("MemoryMB", diffTypeEdited, "256", "512")>> }

\* the union of Part(lo), ..., Part(hi)
RECURSIVE CupOver(_, _, _)
CupOver(Part(_), lo, hi) == IF lo > hi THEN {} ELSE Part(lo) \cup CupOver(Part, lo + 1, hi)

ObjectDiff(depth, ty, fs, os) ==
  [Name |-> ObjectName(depth), Type |-> ty, Fields |-> fs, Objects |-> os]

\* the sequences of object diffs of exactly n object nodes in total, the
\* first level of them at nesting depth `depth`
RECURSIVE ObjectForests(_, _)
ObjectForests(n, depth) ==
  IF n = 0 THEN {<<>>}
  ELSE LET Part(k) == { <<ObjectDiff(depth, ty, fs, os)>> \o rest :
                          ty \in NodeTypes, fs \in FieldSeqs,
                          os \in ObjectForests(k - 1, depth + 1),
                          rest \in ObjectForests(n - k, depth) }
       IN  CupOver(Part, 1, n)

TaskDiff(nm, ty, os) == [Name |-> nm, Type |-> ty, Objects |-> os]

\* the sequences of task diffs of exactly n task and object nodes in total
RECURSIVE TaskForests(_)
TaskForests(n) ==
  IF n = 0 THEN {<<>>}
  ELSE LET Part(k) == { <<TaskDiff("web", ty, os)>> \o rest :
                          ty \in NodeTypes, os \in ObjectForests(k - 1, 0),
                          rest \in TaskForests(n - k) }
       IN  CupOver(Part, 1, n)

TaskGroupDiff(nm, ty, os, ts) == [Name |-> nm, Type |-> ty, Objects |-> os, Tasks |-> ts]

\* the task group diffs of exactly n task group, task and object nodes
TaskGroupDiffs(n) ==
  LET Part(a) == { TaskGroupDiff("cache", ty, os, ts) :
                     ty \in NodeTypes, os \in ObjectForests(a, 0),
                     ts \in TaskForests(n - 1 - a) }
  IN  CupOver(Part, 0, n - 1)

\* the sequences of task group diffs of exactly n nodes in total
RECURSIVE GroupForests(_)
GroupForests(n) ==
  IF n = 0 THEN {<<>>}
  ELSE LET Part(k) == { <<g>> \o rest : g \in TaskGroupDiffs(k), rest \in GroupForests(n - k) }
       IN  CupOver(Part, 1, n)

SmallDiffs ==
  { [Type |-> ty, TaskGroups |-> tgs] :
      ty \in JobTypes, tgs \in CupOver(GroupForests, 0, MaxNodes) }

Leaf ==
  [Name |-> "Resources", Type |-> diffTypeEdited,
   Fields |-> <<FieldDiff("CPU", diffTypeEdited, "500", "1000")>>, Objects |-> <<>>]

WideObjects == {<<>>, <<Leaf>>}

WideTasks ==
  { [Name |-> nm, Type |-> ty, Objects |-> os] :
      nm \in TaskNames, ty \in NodeTypes, os \in WideObjects }

WideGroups(taskSeqs) ==
  { [Name |-> nm, Type |-> ty, Objects |-> os, Tasks |-> ts] :
      nm \in GroupNames, ty \in NodeTypes, os \in WideObjects, ts \in taskSeqs }

WideDiffs ==
  { [Type |-> diffTypeEdited, TaskGroups |-> <<g1, g2>>] :
      g1 \in WideGroups({ <<t1, t2>> : t1 \in WideTasks, t2 \in WideTasks }),
      g2 \in WideGroups({ <<t>> : t \in WideTasks }) }

JobDiffs == SmallDiffs \cup WideDiffs

(***************************************************************************)
(* Log records.  site names the log call that produced the record and      *)
(* path the position in the diff of the field a detail record reports      *)
(* (both are bookkeeping of the model; the program logs level and msg).    *)
(***************************************************************************)
Record(level, site, msg) == [level |-> level, site |-> site, msg |-> msg, path |-> <<>>]

RECURSIVE ConcatAll(_)
ConcatAll(ss) == IF ss = <<>> THEN <<>> ELSE Head(ss) \o ConcatAll(Tail(ss))

logDiffObj(g, t, objName, fName, fOld, fNew) ==
  LET lEnd == "plan indicates change of " \o objName \o ":" \o fName
                \o " from " \o fOld \o " to " \o fNew
      lStartG == IF g # "" THEN "group " \o g \o " " ELSE ""
      lStart == IF t # "" THEN lStartG \o "and task " \o t \o " " ELSE lStartG
      l == IF lStart # "" THEN lStart \o lEnd ELSE lEnd
  IN  Record("info", "logDiffObj", "levant/plan: " \o l)

\* recurseObjDiff without the test for child objects
RECURSIVE recurseObjDiffNoLeafTest(_, _, _, _)
recurseObjDiffNoLeafTest(g, t, objDiff, path) ==
  IF Len(objDiff.Fields) > 0 /\ objDiff.Type = diffTypeEdited
  THEN ConcatAll([i \in 1..Len(objDiff.Fields) |->
         LET f == objDiff.Fields[i] IN
         IF f.Type # diffTypeEdited THEN <<>>
         ELSE <<[logDiffObj(g, t, objDiff.Name, f.Name, f.Old, f.New)
                   EXCEPT !.path = path \o <<i>>]>>])
  ELSE ConcatAll([i \in 1..Len(objDiff.Objects) |->
         recurseObjDiffNoLeafTest(g, t, objDiff.Objects[i], path \o <<i>>)])

RECURSIVE recurseObjDiff(_, _, _, _)
recurseObjDiff(g, t, objDiff, path) ==
  IF Len(objDiff.Objects) = 0 /\ Len(objDiff.Fields) > 0 /\ objDiff.Type = diffTypeEdited
  THEN ConcatAll([i \in 1..Len(objDiff.Fields) |->
         LET f == objDiff.Fields[i] IN
         IF f.Type # diffTypeEdited THEN <<>>
         ELSE <<[logDiffObj(g, t, objDiff.Name, f.Name, f.Old, f.New)
                   EXCEPT !.path = path \o <<i>>]>>])
  ELSE ConcatAll([i \in 1..Len(objDiff.Objects) |->
         recurseObjDiff(g, t, objDiff.Objects[i], path \o <<i>>)])

\* planDiffTasks with `continue` where the code has `return`
RECURSIVE planDiffTasksContinue(_, _, _)
planDiffTasksContinue(tg, gi, ti) ==
  IF ti > Len(tg.Tasks) THEN [out |-> <<>>, returned |-> FALSE]
  ELSE LET t == tg.Tasks[ti]
           here == ConcatAll([i \in 1..Len(t.Objects) |->
                     recurseObjDiff(tg.Name, t.Name, t.Objects[i], <<gi, 1, ti, i>>)])
           rest == planDiffTasksContinue(tg, gi, ti + 1)
       IN  IF t.Type # diffTypeEdited THEN rest
           ELSE [out |-> here \o rest.out, returned |-> FALSE]

\* the loop over tg.Tasks from index ti on; returned: the loop hit `return`
RECURSIVE planDiffTasks(_, _, _)
planDiffTasks(tg, gi, ti) ==
  IF ti > Len(tg.Tasks) THEN [out |-> <<>>, returned |-> FALSE]
  ELSE LET t == tg.Tasks[ti] IN
       IF t.Type # diffTypeEdited THEN planDiffTasks(tg, gi, ti + 1)
       ELSE IF Len(t.Objects) = 0 THEN [out |-> <<>>, returned |-> TRUE]
       ELSE LET here == ConcatAll([i \in 1..Len(t.Objects) |->
                          recurseObjDiff(tg.Name, t.Name, t.Objects[i], <<gi, 1, ti, i>>)])
                rest == planDiffTasks(tg, gi, ti + 1)
            IN  [out |-> here \o rest.out, returned |-> rest.returned]

\* planDiffGroups without the test of the task group's classification
RECURSIVE planDiffGroupsAnyType(_, _)
planDiffGroupsAnyType(plan, gi) ==
  IF gi > Len(plan.TaskGroups) THEN <<>>
  ELSE LET tg == plan.TaskGroups[gi]
           objs == ConcatAll([i \in 1..Len(tg.Objects) |->
                     recurseObjDiff(tg.Name, "", tg.Objects[i], <<gi, 0, i>>)])
           tasks == planDiffTasks(tg, gi, 1)
       IN  IF tasks.returned THEN objs \o tasks.out
           ELSE objs \o tasks.out \o planDiffGroupsAnyType(plan, gi + 1)

\* planDiffGroups with the loop over the tasks ahead of the loop over the objects
RECURSIVE planDiffGroupsTasksFirst(_, _)
planDiffGroupsTasksFirst(plan, gi) ==
  IF gi > Len(plan.TaskGroups) THEN <<>>
  ELSE LET tg == plan.TaskGroups[gi] IN
       IF tg.Type # diffTypeEdited THEN planDiffGroupsTasksFirst(plan, gi + 1)
       ELSE LET objs == ConcatAll([i \in 1..Len(tg.Objects) |->
                          recurseObjDiff(tg.Name, "", tg.Objects[i], <<gi, 0, i>>)])
                tasks == planDiffTasks(tg, gi, 1)
            IN  IF tasks.returned THEN tasks.out
                ELSE tasks.out \o objs \o planDiffGroupsTasksFirst(plan, gi + 1)

\* the loop over plan.TaskGroups from index gi on
RECURSIVE planDiffGroups(_, _)
planDiffGroups(plan, gi) ==
  IF gi > Len(plan.TaskGroups) THEN <<>>
  ELSE LET tg == plan.TaskGroups[gi] IN
       IF tg.Type # diffTypeEdited THEN planDiffGroups(plan, gi + 1)
       ELSE LET objs == ConcatAll([i \in 1..Len(tg.Objects) |->
                          recurseObjDiff(tg.Name, "", tg.Objects[i], <<gi, 0, i>>)])
                tasks == planDiffTasks(tg, gi, 1)
            IN  IF tasks.returned THEN objs \o tasks.out
                ELSE objs \o tasks.out \o planDiffGroups(plan, gi + 1)

planDiff(plan) == planDiffGroups(plan, 1)

(***************************************************************************)
(* plan(): one action per path through the function.                       *)
(***************************************************************************)
Trigger == Record("debug", "plan:trigger", "levant/plan: triggering Nomad plan")

Return(records, value) ==
  /\ log' = records
  /\ ret' = value
  /\ prevLog' = log
  /\ prevRet' = ret

\* PlanFetchError without the return: the error is logged and plan() goes on
PlanFetchErrorIgnored ==
  /\ Return(<<Trigger, Record("error", "plan:fetch", "levant/plan: unable to run a job plan")>>
              \o planDiff(diff),
            TRUE)
  /\ UNCHANGED diff

\* Jobs().Plan fails
PlanFetchError ==
  /\ Return(<<Trigger, Record("error", "plan:fetch", "levant/plan: unable to run a job plan")>>,
            FALSE)
  /\ UNCHANGED diff

\* PlanAdded that also walks the diff
PlanAddedWalks ==
  /\ diff.Type = diffTypeAdded
  /\ Return(<<Trigger, Record("info", "plan:added",
                              "levant/plan: job is a new addition to the cluster")>>
              \o planDiff(diff),
            TRUE)
  /\ UNCHANGED diff

PlanAdded ==
  /\ diff.Type = diffTypeAdded
  /\ Return(<<Trigger, Record("info", "plan:added",
                              "levant/plan: job is a new addition to the cluster")>>,
            TRUE)
  /\ UNCHANGED diff

PlanNone ==
  /\ diff.Type = diffTypeNone
  /\ Return(<<Trigger, Record("error", "plan:none",
                              "levant/plan: no changes detected for job")>>,
            FALSE)
  /\ UNCHANGED diff

\* PlanEdited that announces the edit before the walk
PlanEditedAnnounces ==
  /\ diff.Type = diffTypeEdited
  /\ Return(<<Trigger, Record("info", "plan:edited", "levant/plan: job has changes")>>
              \o planDiff(diff),
            TRUE)
  /\ UNCHANGED diff

\* PlanEdited whose walk takes the task groups off the diff as it visits them
PlanEditedConsuming ==
  /\ diff.Type = diffTypeEdited
  /\ Return(<<Trigger>> \o planDiff(diff), TRUE)
  /\ diff' = [diff EXCEPT !.TaskGroups = <<>>]

PlanEdited ==
  /\ diff.Type = diffTypeEdited
  /\ Return(<<Trigger>> \o planDiff(diff), TRUE)
  /\ UNCHANGED diff

\* PlanOther that halts the deployment
PlanOtherHalts ==
  /\ diff.Type \notin {diffTypeAdded, diffTypeNone, diffTypeEdited}
  /\ Return(<<Trigger>>, FALSE)
  /\ UNCHANGED diff

PlanOther ==
  /\ diff.Type \notin {diffTypeAdded, diffTypeNone, diffTypeEdited}
  /\ Return(<<Trigger>>, TRUE)
  /\ UNCHANGED diff

NotCalled == "not called"

Init ==
  /\ diff \in JobDiffs
  /\ log = <<>>
  /\ ret = NotCalled
  /\ prevLog = <<>>
  /\ prevRet = NotCalled

Next ==
  \/ PlanFetchError
  \/ PlanAdded
  \/ PlanNone
  \/ PlanEdited
  \/ PlanOther

Spec == Init /\ [][Next]_vars

(***************************************************************************)
(* Vocabulary of the properties.                                           *)
(***************************************************************************)
\* every invocation logs at least its trigger record
Called == Len(log) > 0

HasSite(l, site) == \E i \in 1..Len(l) : l[i].site = site

FetchFailed == Called /\ HasSite(log, "plan:fetch")

\* plan() got a diff and went through the switch on its classification
Decided == Called /\ ~HasSite(log, "plan:fetch")

\* the invocation ran planDiff
Walking == Decided /\ diff.Type = diffTypeEdited

AtLevel(l, level) == SelectSeq(l, LAMBDA r : r.level = level)

Details(l) == SelectSeq(l, LAMBDA r : r.site = "logDiffObj")

\* the records that describe the top-level outcome
TopLevel(l) ==
  SelectSeq(l, LAMBDA r : r.site \notin {"plan:trigger", "plan:fetch", "logDiffObj"})

Reported == { log[i].path : i \in { j \in 1..Len(log) : log[j].site = "logDiffObj" } }

(***************************************************************************)
(* Positions in the diff.  A field of a group-level object is at           *)
(* <<group, 0, object, child, ..., field>>, a field of a task's object at  *)
(* <<group, 1, task, object, child, ..., field>>.                          *)
(***************************************************************************)
RECURSIVE ObjFieldPaths(_, _)
ObjFieldPaths(o, path) ==
  { path \o <<i>> : i \in 1..Len(o.Fields) }
    \cup UNION { ObjFieldPaths(o.Objects[i], path \o <<i>>) : i \in 1..Len(o.Objects) }

FieldPaths ==
  UNION { LET tg == diff.TaskGroups[gi] IN
          UNION { ObjFieldPaths(tg.Objects[i], <<gi, 0, i>>) : i \in 1..Len(tg.Objects) }
            \cup UNION { UNION { ObjFieldPaths(tg.Tasks[ti].Objects[i], <<gi, 1, ti, i>>) :
                                   i \in 1..Len(tg.Tasks[ti].Objects) } :
                         ti \in 1..Len(tg.Tasks) } :
          gi \in 1..Len(diff.TaskGroups) }

GroupOf(p) == diff.TaskGroups[p[1]]
InTask(p) == p[2] = 1
TaskOf(p) == GroupOf(p).Tasks[p[3]]
TopObjects(p) == IF InTask(p) THEN TaskOf(p).Objects ELSE GroupOf(p).Objects
\* the object indices of p, from the top-level object down to the field's owner
ObjIdx(p) == IF InTask(p) THEN SubSeq(p, 4, Len(p) - 1) ELSE SubSeq(p, 3, Len(p) - 1)

RECURSIVE ObjAt(_, _)
ObjAt(objs, idx) ==
  IF Len(idx) = 1 THEN objs[idx[1]] ELSE ObjAt(objs[idx[1]].Objects, Tail(idx))

Owner(p) == ObjAt(TopObjects(p), ObjIdx(p))
FieldAt(p) == Owner(p).Fields[p[Len(p)]]
\* the object nodes strictly above the owner of the field at p
Ancestors(p) ==
  { ObjAt(TopObjects(p), SubSeq(ObjIdx(p), 1, k)) : k \in 1..(Len(ObjIdx(p)) - 1) }

GroupName(p) == GroupOf(p).Name
TaskName(p) == IF InTask(p) THEN TaskOf(p).Name ELSE ""

\* p comes before q in the declared order of the diff
LexLess(p, q) ==
  \E k \in 1..Len(p) :
    /\ k <= Len(q)
    /\ \A j \in 1..(k - 1) : p[j] = q[j]
    /\ p[k] < q[k]

\* the edited tasks without objects in edited task groups, as <<group, task>>
AbortPoints ==
  { a \in UNION { { <<gi, ti>> : ti \in 1..Len(diff.TaskGroups[gi].Tasks) } :
                  gi \in 1..Len(diff.TaskGroups) } :
      /\ diff.TaskGroups[a[1]].Type = diffTypeEdited
      /\ diff.TaskGroups[a[1]].Tasks[a[2]].Type = diffTypeEdited
      /\ Len(diff.TaskGroups[a[1]].Tasks[a[2]].Objects) = 0 }

FirstAbort == CHOOSE a \in AbortPoints : \A b \in AbortPoints : a = b \/ LexLess(a, b)

\* the field at p comes before the first abort point in traversal order
BeforeAbort(p) ==
  \/ AbortPoints = {}
  \/ p[1] < FirstAbort[1]
  \/ p[1] = FirstAbort[1] /\ (~InTask(p) \/ p[3] < FirstAbort[2])

\* the task group, and the task if any, that hold the field at p are edited
EditedContext(p) ==
  /\ GroupOf(p).Type = diffTypeEdited
  /\ InTask(p) => TaskOf(p).Type = diffTypeEdited

\* the field at p is an edited field of an edited object without child objects
EditedLeafField(p) ==
  /\ Len(Owner(p).Objects) = 0
  /\ Owner(p).Type = diffTypeEdited
  /\ FieldAt(p).Type = diffTypeEdited

\* the two most recent invocations both ran planDiff
WalkedTwice == Walking /\ Len(prevLog) > 0 /\ ~HasSite(prevLog, "plan:fetch")

\* the text logDiffObj is given for the field at p, after the context segments
ChangeOf(p) ==
  "plan indicates change of " \o Owner(p).Name \o ":" \o FieldAt(p).Name
    \o " from " \o FieldAt(p).Old \o " to " \o FieldAt(p).New

(***************************************************************************)
(* C1.  With the diff fetched, plan() returns false if and only if the     *)
(* top-level classification is None; for Added, for Edited (whatever the   *)
(* walk emits) and for any other classification it returns true.           *)
(***************************************************************************)
ThmC1 ==
  Decided =>
    /\ ret \in BOOLEAN
    /\ ret = FALSE <=> diff.Type = diffTypeNone
    /\ diff.Type # diffTypeNone => ret = TRUE

\* an unrecognized classification over a diff with task groups was let through
WitC1 ==
  /\ Decided
  /\ diff.Type = diffTypeDeleted
  /\ diff.TaskGroups # <<>>
  /\ ret = TRUE

(***************************************************************************)
(* C2.  For an Added diff plan() logs exactly one info record and no       *)
(* detail record, for a None diff exactly one error record and no detail   *)
(* record: the task groups are not walked, whatever they hold.             *)
(***************************************************************************)
ThmC2 ==
  Decided =>
    /\ diff.Type = diffTypeAdded =>
         /\ Len(AtLevel(log, "info")) = 1
         /\ Details(log) = <<>>
    /\ diff.Type = diffTypeNone =>
         /\ Len(AtLevel(log, "error")) = 1
         /\ Details(log) = <<>>

\* an Added diff whose task groups hold fields a walk would report
WitC2 ==
  /\ Decided
  /\ diff.Type = diffTypeAdded
  /\ planDiff(diff) # <<>>
  /\ Len(log) = 2

(***************************************************************************)
(* C3 as stated.  Every invocation that got a diff logs exactly one        *)
(* top-level record, whatever the classification.                          *)
(***************************************************************************)
CexC3 == Decided => Len(TopLevel(log)) = 1

(***************************************************************************)
(* C3 as amended.  An invocation that got a diff logs exactly one          *)
(* top-level record when the classification is Added or None and none when *)
(* it is Edited or unrecognized; detail records are logged only when the   *)
(* classification is Edited.                                               *)
(***************************************************************************)
ThmC3 ==
  Decided =>
    /\ diff.Type \in {diffTypeAdded, diffTypeNone} => Len(TopLevel(log)) = 1
    /\ diff.Type \notin {diffTypeAdded, diffTypeNone} => Len(TopLevel(log)) = 0
    /\ Details(log) # <<>> => diff.Type = diffTypeEdited

\* an Edited diff was walked: detail records and no top-level record
WitC3 ==
  /\ Walking
  /\ Details(log) # <<>>
  /\ TopLevel(log) = <<>>

(***************************************************************************)
(* C4.  The walk stops at the first edited task without objects in an      *)
(* edited task group: nothing that comes later in the diff is reported,    *)
(* not even from a later task group, and everything reportable that comes  *)
(* earlier is.  Tasks without objects that are not edited, or that sit in  *)
(* a task group that is not edited, stop nothing.                          *)
(***************************************************************************)
ThmC4 ==
  Walking =>
    /\ \A p \in Reported : BeforeAbort(p)
    /\ \A p \in FieldPaths :
         (EditedContext(p) /\ EditedLeafField(p) /\ BeforeAbort(p)) => p \in Reported

\* the walk stopped after reporting something, ahead of a later task group
\* with an edited field it would have reported
WitC4 ==
  /\ Walking
  /\ AbortPoints # {}
  /\ Reported # {}
  /\ \E p \in FieldPaths :
       /\ p[1] > FirstAbort[1]
       /\ EditedContext(p)
       /\ EditedLeafField(p)
       /\ p \notin Reported

(***************************************************************************)
(* C5.  For the objects the walk visits: an edited object without child    *)
(* objects has exactly its edited fields reported, each as the record      *)
(* logDiffObj makes of (group, task, object name, field name, old, new);   *)
(* an object with child objects has none of its own fields reported and    *)
(* its children are visited under the same group and task.  No field is    *)
(* reported twice.                                                         *)
(***************************************************************************)
ThmC5 ==
  Walking =>
    /\ \A p \in FieldPaths :
         /\ (EditedContext(p) /\ BeforeAbort(p)
               /\ Len(Owner(p).Objects) = 0 /\ Owner(p).Type = diffTypeEdited)
              => (p \in Reported <=> FieldAt(p).Type = diffTypeEdited)
         /\ Len(Owner(p).Objects) > 0 => p \notin Reported
    /\ \A i \in 1..Len(log) :
         log[i].site = "logDiffObj" =>
           /\ log[i].path \in FieldPaths
           /\ log[i] = [logDiffObj(GroupName(log[i].path), TaskName(log[i].path),
                                   Owner(log[i].path).Name, FieldAt(log[i].path).Name,
                                   FieldAt(log[i].path).Old, FieldAt(log[i].path).New)
                          EXCEPT !.path = log[i].path]
    /\ \A i, j \in 1..Len(log) :
         (i # j /\ log[i].site = "logDiffObj" /\ log[j].site = "logDiffObj")
           => log[i].path # log[j].path

\* a nested object had its edited field reported and its unedited field
\* skipped, under an edited parent whose own fields were not reported
WitC5 ==
  /\ Walking
  /\ \E p \in Reported :
       /\ \E a \in Ancestors(p) : a.Type = diffTypeEdited /\ Len(a.Fields) > 0
       /\ \E q \in FieldPaths \ Reported :
            /\ SubSeq(q, 1, Len(q) - 1) = SubSeq(p, 1, Len(p) - 1)
            /\ FieldAt(q).Type # diffTypeEdited

(***************************************************************************)
(* C6 as stated.  No detail record comes from inside a task group, task or *)
(* object, at any depth, that is not edited.                               *)
(***************************************************************************)
CexC6 ==
  Walking =>
    \A p \in Reported :
      /\ EditedContext(p)
      /\ Owner(p).Type = diffTypeEdited
      /\ \A a \in Ancestors(p) : a.Type = diffTypeEdited

(***************************************************************************)
(* C6 as amended.  No detail record comes from inside a task group or task *)
(* that is not edited, and no field of an object that is not edited is     *)
(* reported; an object that is not edited and has child objects is still   *)
(* descended into.                                                         *)
(***************************************************************************)
ThmC6 ==
  Walking =>
    \A p \in Reported :
      /\ EditedContext(p)
      /\ Owner(p).Type = diffTypeEdited

\* a field was reported from under an object that is not edited
WitC6 ==
  /\ Walking
  /\ \E p \in Reported : \E a \in Ancestors(p) : a.Type # diffTypeEdited

(***************************************************************************)
(* C7.  The detail records of one walk come in the declared order of the   *)
(* diff: task groups in order, a group's objects before its tasks, tasks   *)
(* in order, objects in order, a child's subtree before its next sibling,  *)
(* fields in order.                                                        *)
(***************************************************************************)
ThmC7 ==
  Walking =>
    \A i, j \in 1..Len(Details(log)) :
      i < j => LexLess(Details(log)[i].path, Details(log)[j].path)

\* records from a group's objects, then from two of its tasks, then from
\* the next group
WitC7 ==
  /\ Walking
  /\ \E i, j, k, l \in 1..Len(Details(log)) :
       LET d == Details(log) IN
       /\ i < j /\ j < k /\ k < l
       /\ d[i].path[1] = d[k].path[1]
       /\ ~InTask(d[i].path)
       /\ InTask(d[j].path) /\ InTask(d[k].path)
       /\ d[j].path[3] # d[k].path[3]
       /\ d[l].path[1] # d[k].path[1]

(***************************************************************************)
(* C8.  Every detail message has one of three forms, by which of group     *)
(* and task are set: both, the group alone, or neither; a task segment     *)
(* never comes without a group segment ahead of it, and a record from a    *)
(* group-level object has no task segment.                                 *)
(***************************************************************************)
CexC8 ==
  Walking =>
    \A i \in 1..Len(log) :
      log[i].site = "logDiffObj" =>
        LET p == log[i].path
            G == GroupName(p)
            T == TaskName(p)
        IN  \/ /\ G # "" /\ T # ""
               /\ log[i].msg = "levant/plan: group " \o G \o " and task " \o T \o " "
                                 \o ChangeOf(p)
            \/ /\ G # "" /\ T = ""
               /\ log[i].msg = "levant/plan: group " \o G \o " " \o ChangeOf(p)
            \/ /\ G = "" /\ T = ""
               /\ log[i].msg = "levant/plan: " \o ChangeOf(p)

ThmC10 ==
  FetchFailed =>
    /\ ret = FALSE
    /\ Len(AtLevel(log, "error")) = 1
    /\ TopLevel(log) = <<>>
    /\ Details(log) = <<>>

\* the fetch failed for a job whose diff a walk would have reported on
WitC10 ==
  /\ FetchFailed
  /\ diff.Type = diffTypeEdited
  /\ planDiff(diff) # <<>>
  /\ ret = FALSE

====
